---- MODULE Spec2Model ----
(***************************************************************************)
(* PID controller server (main/pid_controller_server.c).                   *)
(*                                                                         *)
(* The Request Loop is udp_server_task: it creates and binds a UDP socket, *)
(* then polls it every SERVER_TASK_SLEEP_TIME_MS; every datagram read is   *)
(* handed to process_request and answered with sendto; a watchdog counter  *)
(* (no_msg_cnt, is_stream_stop) calls stream_stop after no_msg_cnt_warn    *)
(* polls without data.  process_request, stream_stop, _stream_task and the *)
(* PID engine are declared in commandmanager.h / pid.h, which are not part *)
(* of the sources at hand; they are modelled from the specification.       *)
(***************************************************************************)
EXTENDS Integers, Sequences, FiniteSets, TLC

(***************************************************************************)
(* Program constants                                                       *)
(***************************************************************************)
\* sizeof(char) + 2*sizeof(float) on the target (4-byte float)
REQUEST_RESPONSE_BUF_SIZE == 9

\* BIT0 and BIT1 of the event group
IPV4_GOTIP_BIT == 1

IPV6_GOTIP_BIT == 2

\* NO_MSG_TIMEOUT_SECONDS*(1000.0/SERVER_TASK_SLEEP_TIME_MS) = 15.0*(1000.0/20)
no_msg_cnt_warn == 750

(***************************************************************************)
(* Bounds of the model                                                     *)
(***************************************************************************)
\* datagrams the socket's receive queue holds
MaxQueue == 2

\* distinct client addresses
NumClients == 2

\* the history counter of stream_stop calls saturates here
MaxStops == 2

\* set-points, measurements and limits a client sends lie in -MaxVal..MaxVal
MaxVal == 1

\* gains a client sends lie in 0..MaxGain
MaxGain == 1

\* time steps passed to step lie in 0..MaxDt
MaxDt == 1

\* the wide-open limits of a fresh ControllerState are -WideOpen, WideOpen
WideOpen == 3

\* idle polls in a row for which the start-up is followed
MaxBootTicks == 5

Vals == -MaxVal..MaxVal

Clients == 1..NumClients

\* a datagram shorter than, exactly, and longer than one frame
DatagramLens ==
  { REQUEST_RESPONSE_BUF_SIZE - 1, REQUEST_RESPONSE_BUF_SIZE,
    REQUEST_RESPONSE_BUF_SIZE + 1 }

Datagram == [src : Clients, len : DatagramLens]

\* the zero-initialised global sourceAddr: no client's address
NoAddr == 0

\* nothing read yet
NoDatagram == [src |-> NoAddr, len |-> 0]

Min(a, b) == IF a < b THEN a ELSE b

VARIABLES
  pc,             \* position of udp_server_task
  sock,           \* the endpoint behind the global sock:
                  \*   "none", "unbound" (created, bind failed) or "bound"
  inbox,          \* number of datagrams queued on the socket; nothing looks
                  \* at a queued datagram before recvfrom, so its source and
                  \* length are drawn when it is read
  no_msg_cnt,     \* local of udp_server_task
  is_stream_stop, \* local of udp_server_task
  sourceAddr,     \* global: source address filled in by recvfrom
  len,            \* local: what recvfrom returned
  buf,            \* local: the request/response buffer, byte by byte, each
                  \* byte named by where its content comes from
  streaming,      \* whether the Telemetry Pusher is enabled
  \* history variables
  rx,             \* the datagram read last, as the client sent it
  tx,             \* the sendto calls made since the last recvfrom
  idleSince,      \* idle ticks since the watchdog was created or a request
                  \* was processed, saturating at no_msg_cnt_warn + 1
  stopsSinceReq,  \* stream_stop calls since start or the last processed
                  \* request, saturating at MaxStops
  stopsSinceInit, \* the same, also reset when the watchdog is re-created
  \* the shared ControllerState and its two users
  pid,            \* the ControllerState
  lock,           \* who holds the ControllerState's lock
  wpc,            \* position of process_request in a configuration write
  cmd,            \* the limits that write is storing
  rpc,            \* position of the Telemetry Pusher in a read
  snap,           \* what the Telemetry Pusher has read
  before,         \* history: the limits when that read began
  \* start-up
  mainpc,           \* position of app_main
  wifi_event_group, \* the bits set in the event group
  bothSet           \* history: both bits have been set at the same time

\* the ControllerState and what its users hold
ctlVars == << pid, lock, wpc, cmd, rpc, snap, before >>

\* what app_main and event_handler hold
bootVars == << mainpc, wifi_event_group, bothSet >>

\* what udp_server_task and its socket hold
loopVars ==
  << pc, sock, inbox, no_msg_cnt, is_stream_stop, sourceAddr, len, buf,
     streaming, rx, tx, idleSince, stopsSinceReq, stopsSinceInit >>

vars == << loopVars, ctlVars, bootVars >>

srvVars ==
  << pc, sock, no_msg_cnt, is_stream_stop, sourceAddr, len, buf, streaming,
     rx, tx, idleSince, stopsSinceReq, stopsSinceInit >>

(***************************************************************************)
(* Pure pieces of udp_server_task                                          *)
(***************************************************************************)
\* variant: the comparison is strict, the stop comes one tick late
StopConditionStrict(cnt, stopped) == (cnt > no_msg_cnt_warn) /\ ~stopped

\* variant: is_stream_stop is not consulted
StopConditionNoFlag(cnt, stopped) == cnt >= no_msg_cnt_warn

\* line 132: the watchdog's condition
StopCondition(cnt, stopped) == (cnt >= no_msg_cnt_warn) /\ ~stopped

\* variant: the counter also advances while suspended
IdleCountAlways(cnt, stopped) == cnt + 1

\* lines 189-191: the idle tick's effect on the counter
IdleCount(cnt, stopped) == IF ~stopped THEN cnt + 1 ELSE cnt

\* line 153: recvfrom copies at most REQUEST_RESPONSE_BUF_SIZE bytes and
\* returns the number copied
RecvLen(n) == Min(n, REQUEST_RESPONSE_BUF_SIZE)

\* line 161: every datagram read without error is dispatched, whatever len is
Dispatched(n) == n >= 0

\* variant: the reply goes to a fixed address
ReplyToFirstClient(addr) == 1

\* line 175: the reply goes to the address recvfrom stored
ReplyTo(addr) == addr

\* line 175: the reply's length
ReplyLen == REQUEST_RESPONSE_BUF_SIZE

\* the bytes of buf (line 87)
BufIndex == 1..REQUEST_RESPONSE_BUF_SIZE

\* a byte of buf holds: nothing written yet ("uninit"), zero, a byte of the
\* datagram being handled ("request"), a byte process_request wrote for it
\* ("response"), or a byte left from an earlier exchange ("stale")
Aged(byte) == IF byte \in {"request", "response"} THEN "stale" ELSE byte

\* line 153: recvfrom overwrites the first bytes with the datagram's and
\* leaves the rest as it was
recvfrom(b, n) ==
  [i \in BufIndex |-> IF i <= RecvLen(n) THEN "request" ELSE Aged(b[i])]

\* process_request(buf) of commandmanager.h writes the response in place:
\* nothing (the request echoed), the opcode, the two arguments, or all
ResponseBytes == { {}, {1}, BufIndex \ {1}, BufIndex }

process_request(b, w) ==
  [i \in BufIndex |-> IF i \in w THEN "response" ELSE b[i]]

\* variant: the buffer is not cleared
memset_skipped(b) == b

\* line 181: memset(buf, 0, REQUEST_RESPONSE_BUF_SIZE)
memset(b) == [i \in BufIndex |-> "zero"]

\* stream_stop() of commandmanager.h: disables the Telemetry Pusher
stream_stop(enabled) == FALSE

(***************************************************************************)
(* The PID Engine (pid.h), after section 4.2 of the specification.  Values *)
(* are integers: the properties checked are about ordering and clamping.   *)
(***************************************************************************)
Clamp(x, lo, hi) == IF x < lo THEN lo ELSE IF x > hi THEN hi ELSE x

\* init(): everything zero, the limits wide open
init ==
  [ setpoint |-> 0, kp |-> 0, ki |-> 0, kd |-> 0,
    integral_accumulator |-> 0, previous_error |-> 0,
    integral_min |-> -WideOpen, integral_max |-> WideOpen,
    output_min |-> -WideOpen, output_max |-> WideOpen,
    last_output |-> 0, last_measurement |-> 0 ]

\* set_gains(kp, ki, kd): non-finite values are rejected, anything else stored
set_gains(s, kp, ki, kd, finite) ==
  IF finite THEN [s EXCEPT !.kp = kp, !.ki = ki, !.kd = kd] ELSE s

\* set_setpoint(value)
set_setpoint(s, value) == [s EXCEPT !.setpoint = value]

\* set_output_limits(min, max): rejected unless min <= max
set_output_limits(s, min, max) ==
  IF min <= max THEN [s EXCEPT !.output_min = min, !.output_max = max] ELSE s

\* set_integral_limits(min, max): rejected unless min <= max
set_integral_limits(s, min, max) ==
  IF min <= max THEN [s EXCEPT !.integral_min = min, !.integral_max = max]
  ELSE s

\* step(measurement, dt): one pass of the control law; dt <= 0 is an error
step(s, measurement, dt) ==
  IF dt <= 0 THEN s
  ELSE
    LET error == s.setpoint - measurement
        acc == Clamp(s.integral_accumulator + error * dt,
                     s.integral_min, s.integral_max)
        derivative == (error - s.previous_error) \div dt
        raw_output == s.kp * error + s.ki * acc + s.kd * derivative
        output == Clamp(raw_output, s.output_min, s.output_max)
    IN [s EXCEPT !.integral_accumulator = acc,
                 !.previous_error = error,
                 !.last_output = output,
                 !.last_measurement = measurement]

(***************************************************************************)
(* Initial state: app_main has created the tasks (lines 263-264)            *)
(***************************************************************************)
Init ==
  /\ pc = "socket"
  /\ sock = "none"
  /\ inbox = 0
  /\ no_msg_cnt = 0
  /\ is_stream_stop = FALSE
  /\ sourceAddr = NoAddr
  /\ len = 0
  /\ buf = [i \in BufIndex |-> "uninit"]
  /\ streaming = TRUE
  /\ rx = NoDatagram
  /\ tx = << >>
  /\ idleSince = 0
  /\ stopsSinceReq = 0
  /\ stopsSinceInit = 0
  /\ pid = init
  /\ lock = "free"
  /\ wpc = "idle"
  /\ cmd = << 0, 0 >>
  /\ rpc = "idle"
  /\ snap = << 0, 0 >>
  /\ before = << 0, 0 >>
  /\ mainpc = "done"
  /\ wifi_event_group = {IPV4_GOTIP_BIT, IPV6_GOTIP_BIT}
  /\ bothSet = TRUE

(***************************************************************************)
(* The client                                                              *)
(***************************************************************************)
\* a datagram reaches the listening endpoint
Arrive ==
  /\ sock = "bound"
  /\ inbox < MaxQueue
  /\ inbox' = inbox + 1
  /\ UNCHANGED srvVars
  /\ UNCHANGED << ctlVars, bootVars >>

(***************************************************************************)
(* udp_server_task                                                         *)
(***************************************************************************)
\* line 113: socket() succeeds
SocketOk ==
  /\ pc = "socket"
  /\ pc' = "bind"
  /\ sock' = "unbound"
  /\ UNCHANGED << inbox, no_msg_cnt, is_stream_stop, sourceAddr, len,
                  streaming, rx, tx, idleSince, stopsSinceReq,
                  stopsSinceInit >>
  /\ UNCHANGED << buf, ctlVars, bootVars >>

\* lines 114-117, 204: socket() fails, the outer loop is left, the task deletes
\* itself
SocketFail ==
  /\ pc = "socket"
  /\ pc' = "deleted"
  /\ sock' = "none"
  /\ UNCHANGED << inbox, no_msg_cnt, is_stream_stop, sourceAddr, len,
                  streaming, rx, tx, idleSince, stopsSinceReq,
                  stopsSinceInit >>
  /\ UNCHANGED << buf, ctlVars, bootVars >>

\* variant: the watchdog's locals outlive the socket
WatchdogInitKeepsState(ok) ==
  /\ pc' = "check"
  /\ sock' = IF ok THEN "bound" ELSE "unbound"
  /\ UNCHANGED << inbox, no_msg_cnt, is_stream_stop, sourceAddr, len,
                  streaming, rx, tx, idleSince, stopsSinceReq,
                  stopsSinceInit >>
  /\ UNCHANGED << buf, ctlVars, bootVars >>

\* lines 120-128: bind() (a failure is only logged), then the watchdog's locals
WatchdogInit(ok) ==
  /\ pc' = "check"
  /\ sock' = IF ok THEN "bound" ELSE "unbound"
  /\ no_msg_cnt' = 0
  /\ is_stream_stop' = FALSE
  /\ idleSince' = 0
  /\ stopsSinceInit' = 0
  /\ UNCHANGED << inbox, sourceAddr, len, streaming, rx, tx,
                  stopsSinceReq >>
  /\ UNCHANGED << buf, ctlVars, bootVars >>

Bind ==
  /\ pc = "bind"
  /\ \E ok \in BOOLEAN : WatchdogInit(ok)

\* lines 132-136
WatchdogCheck ==
  /\ pc = "check"
  /\ pc' = "poll"
  /\ IF StopCondition(no_msg_cnt, is_stream_stop)
       THEN /\ streaming' = stream_stop(streaming)
            /\ is_stream_stop' = TRUE
            /\ stopsSinceReq' = Min(stopsSinceReq + 1, MaxStops)
            /\ stopsSinceInit' = Min(stopsSinceInit + 1, MaxStops)
       ELSE UNCHANGED << streaming, is_stream_stop, stopsSinceReq,
                         stopsSinceInit >>
  /\ UNCHANGED << sock, inbox, no_msg_cnt, sourceAddr, len, rx, tx,
                  idleSince >>
  /\ UNCHANGED << buf, ctlVars, bootVars >>

\* lines 140-145: FIONREAD reports bytes to read
PollData ==
  /\ pc = "poll"
  /\ inbox > 0
  /\ pc' = "recv"
  /\ UNCHANGED << sock, inbox, no_msg_cnt, is_stream_stop, sourceAddr, len,
                  streaming, rx, tx, idleSince, stopsSinceReq,
                  stopsSinceInit >>
  /\ UNCHANGED << buf, ctlVars, bootVars >>

\* lines 140-145, 188-193: nothing to read: one idle tick
PollIdle ==
  /\ pc = "poll"
  /\ inbox = 0
  /\ pc' = "check"
  /\ no_msg_cnt' = IdleCount(no_msg_cnt, is_stream_stop)
  /\ idleSince' = Min(idleSince + 1, no_msg_cnt_warn + 1)
  /\ UNCHANGED << sock, inbox, is_stream_stop, sourceAddr, len, streaming,
                  rx, tx, stopsSinceReq, stopsSinceInit >>
  /\ UNCHANGED << buf, ctlVars, bootVars >>

\* lines 152-153, 160-161: recvfrom returns a datagram
RecvOk ==
  /\ pc = "recv"
  /\ inbox > 0
  /\ \E d \in Datagram :
        /\ sourceAddr' = d.src
        /\ len' = RecvLen(d.len)
        /\ buf' = recvfrom(buf, d.len)
        /\ rx' = d
  /\ tx' = << >>
  /\ inbox' = inbox - 1
  /\ pc' = IF Dispatched(len') THEN "process" ELSE "check"
  /\ UNCHANGED << sock, no_msg_cnt, is_stream_stop, streaming, idleSince,
                  stopsSinceReq, stopsSinceInit >>
  /\ UNCHANGED << ctlVars, bootVars >>

\* lines 153-159: recvfrom fails, the inner loop is left
RecvFail ==
  /\ pc = "recv"
  /\ len' = -1
  /\ pc' = "teardown"
  /\ UNCHANGED << sock, inbox, no_msg_cnt, is_stream_stop, sourceAddr,
                  streaming, rx, tx, idleSince, stopsSinceReq,
                  stopsSinceInit >>
  /\ UNCHANGED << buf, ctlVars, bootVars >>

\* line 173: process_request(buf); it writes the response into buf and
\* touches neither the watchdog nor the stream
ProcessRequest ==
  /\ pc = "process"
  /\ pc' = "send"
  /\ \E w \in ResponseBytes : buf' = process_request(buf, w)
  /\ UNCHANGED << sock, inbox, no_msg_cnt, is_stream_stop, sourceAddr, len,
                  streaming, rx, tx, idleSince, stopsSinceReq,
                  stopsSinceInit >>
  /\ UNCHANGED << ctlVars, bootVars >>

\* line 175
Sendto ==
  /\ pc = "send"
  /\ pc' = "reset"
  /\ tx' = IF Len(tx) < 2
             THEN Append(tx, [dst |-> ReplyTo(sourceAddr), len |-> ReplyLen])
             ELSE tx
  /\ UNCHANGED << sock, inbox, no_msg_cnt, is_stream_stop, sourceAddr, len,
                  streaming, rx, idleSince, stopsSinceReq, stopsSinceInit >>
  /\ UNCHANGED << buf, ctlVars, bootVars >>

\* variant: the idle count survives a processed request
WatchdogResetKeepsCount ==
  /\ pc = "reset"
  /\ pc' = "check"
  /\ buf' = memset(buf)
  /\ is_stream_stop' = FALSE
  /\ idleSince' = 0
  /\ stopsSinceReq' = 0
  /\ stopsSinceInit' = 0
  /\ UNCHANGED << sock, inbox, no_msg_cnt, sourceAddr, len, streaming, rx,
                  tx >>
  /\ UNCHANGED << ctlVars, bootVars >>

\* lines 181-184
WatchdogReset ==
  /\ pc = "reset"
  /\ pc' = "check"
  /\ buf' = memset(buf)
  /\ no_msg_cnt' = 0
  /\ is_stream_stop' = FALSE
  /\ idleSince' = 0
  /\ stopsSinceReq' = 0
  /\ stopsSinceInit' = 0
  /\ UNCHANGED << sock, inbox, sourceAddr, len, streaming, rx, tx >>
  /\ UNCHANGED << ctlVars, bootVars >>

\* lines 196-200: shutdown and close; what was queued on the socket is gone
Teardown ==
  /\ pc = "teardown"
  /\ pc' = "socket"
  /\ sock' = "none"
  /\ inbox' = 0
  /\ UNCHANGED << no_msg_cnt, is_stream_stop, sourceAddr, len, streaming,
                  rx, tx, idleSince, stopsSinceReq, stopsSinceInit >>
  /\ UNCHANGED << buf, ctlVars, bootVars >>

ServerNext ==
  \/ SocketOk
  \/ SocketFail
  \/ Bind
  \/ WatchdogCheck
  \/ PollData
  \/ PollIdle
  \/ RecvOk
  \/ RecvFail
  \/ ProcessRequest
  \/ Sendto
  \/ WatchdogReset
  \/ Teardown

Next == Arrive \/ ServerNext

Spec == Init /\ [][Next]_vars

(***************************************************************************)
(* The PID Engine's operations, applied in any order                       *)
(***************************************************************************)
SetGains ==
  /\ \E kp \in 0..MaxGain, ki \in 0..MaxGain, kd \in 0..MaxGain,
        finite \in BOOLEAN :
        pid' = set_gains(pid, kp, ki, kd, finite)
  /\ UNCHANGED << loopVars, lock, wpc, cmd, rpc, snap, before >>
  /\ UNCHANGED bootVars

SetSetpoint ==
  /\ \E v \in Vals : pid' = set_setpoint(pid, v)
  /\ UNCHANGED << loopVars, lock, wpc, cmd, rpc, snap, before >>
  /\ UNCHANGED bootVars

SetOutputLimits ==
  /\ \E min \in Vals, max \in Vals : pid' = set_output_limits(pid, min, max)
  /\ UNCHANGED << loopVars, lock, wpc, cmd, rpc, snap, before >>
  /\ UNCHANGED bootVars

SetIntegralLimits ==
  /\ \E min \in Vals, max \in Vals : pid' = set_integral_limits(pid, min, max)
  /\ UNCHANGED << loopVars, lock, wpc, cmd, rpc, snap, before >>
  /\ UNCHANGED bootVars

Step ==
  /\ \E m \in Vals, dt \in 0..MaxDt : pid' = step(pid, m, dt)
  /\ UNCHANGED << loopVars, lock, wpc, cmd, rpc, snap, before >>
  /\ UNCHANGED bootVars

PidNext ==
  \/ SetGains
  \/ SetSetpoint
  \/ SetOutputLimits
  \/ SetIntegralLimits
  \/ Step

PidSpec == Init /\ [][PidNext]_vars

(***************************************************************************)
(* The two users of the ControllerState, after section 5 of the            *)
(* specification: process_request (called by udp_server_task, line 173)    *)
(* stores new output limits field by field, _stream_task (created at line  *)
(* 264) copies them field by field; each holds the ControllerState's lock  *)
(* for the duration of its write or read.                                  *)
(***************************************************************************)
\* variant: the lock is taken without looking at it
TryLockUnguarded(l) == TRUE

\* the lock can be taken
TryLock(l) == l = "free"

Limits(s) == << s.output_min, s.output_max >>

\* process_request is entered with a set-output-limits command
RequestWrite ==
  /\ wpc = "idle"
  /\ \E min \in Vals, max \in Vals : cmd' = << min, max >>
  /\ wpc' = "acquire"
  /\ UNCHANGED << loopVars, pid, lock, rpc, snap, before >>
  /\ UNCHANGED bootVars

\* the command takes the lock; limits with min > max are rejected
WriterAcquire ==
  /\ wpc = "acquire"
  /\ TryLock(lock)
  /\ lock' = "request"
  /\ wpc' = IF cmd[1] <= cmd[2] THEN "write_min" ELSE "release"
  /\ UNCHANGED << loopVars, pid, cmd, rpc, snap, before >>
  /\ UNCHANGED bootVars

WriteMin ==
  /\ wpc = "write_min"
  /\ pid' = [pid EXCEPT !.output_min = cmd[1]]
  /\ wpc' = "write_max"
  /\ UNCHANGED << loopVars, lock, cmd, rpc, snap, before >>
  /\ UNCHANGED bootVars

WriteMax ==
  /\ wpc = "write_max"
  /\ pid' = [pid EXCEPT !.output_max = cmd[2]]
  /\ wpc' = "release"
  /\ UNCHANGED << loopVars, lock, cmd, rpc, snap, before >>
  /\ UNCHANGED bootVars

WriterRelease ==
  /\ wpc = "release"
  /\ lock' = "free"
  /\ wpc' = "idle"
  /\ UNCHANGED << loopVars, pid, cmd, rpc, snap, before >>
  /\ UNCHANGED bootVars

\* the Telemetry Pusher, while enabled, starts a read
ReaderAcquire ==
  /\ rpc = "idle"
  /\ streaming
  /\ TryLock(lock)
  /\ lock' = "telemetry"
  /\ rpc' = "read_min"
  /\ before' = Limits(pid)
  /\ UNCHANGED << loopVars, pid, wpc, cmd, snap >>
  /\ UNCHANGED bootVars

ReadMin ==
  /\ rpc = "read_min"
  /\ snap' = << pid.output_min, snap[2] >>
  /\ rpc' = "read_max"
  /\ UNCHANGED << loopVars, pid, lock, wpc, cmd, before >>
  /\ UNCHANGED bootVars

ReadMax ==
  /\ rpc = "read_max"
  /\ snap' = << snap[1], pid.output_max >>
  /\ rpc' = "release"
  /\ UNCHANGED << loopVars, pid, lock, wpc, cmd, before >>
  /\ UNCHANGED bootVars

\* the read is over; the snapshot is what gets pushed
ReaderRelease ==
  /\ rpc = "release"
  /\ lock' = "free"
  /\ rpc' = "idle"
  /\ UNCHANGED << loopVars, pid, wpc, cmd, snap, before >>
  /\ UNCHANGED bootVars

CsNext ==
  \/ RequestWrite
  \/ WriterAcquire
  \/ WriteMin
  \/ WriteMax
  \/ WriterRelease
  \/ ReaderAcquire
  \/ ReadMin
  \/ ReadMax
  \/ ReaderRelease

CsSpec == Init /\ [][CsNext]_vars

(***************************************************************************)
(* Start-up: app_main from its wait for the link (line 240) to the end,    *)
(* event_handler (lines 46-77) called for any event at any time, and the   *)
(* tasks app_main creates                                                  *)
(***************************************************************************)
\* the bits app_main waits for (line 238)
WaitedBits == {IPV4_GOTIP_BIT, IPV6_GOTIP_BIT}

\* variant: the wait ends when any of the bits is set
xEventGroupWaitAnyBit(bits) == bits \cap WaitedBits /= {}

\* line 240: xEventGroupWaitBits(wifi_event_group, bits, false, true,
\* portMAX_DELAY) waits for all of the bits and clears none on return
xEventGroupWaitBits(bits) == WaitedBits \subseteq bits

\* setting bits unblocks the task waiting for them
Woken(at, bits) ==
  IF at = "wait" /\ xEventGroupWaitBits(bits) THEN "pid_init" ELSE at

\* the ControllerState before PID_Init: static storage, all zero
pid_data ==
  [ setpoint |-> 0, kp |-> 0, ki |-> 0, kd |-> 0,
    integral_accumulator |-> 0, previous_error |-> 0,
    integral_min |-> 0, integral_max |-> 0,
    output_min |-> 0, output_max |-> 0,
    last_output |-> 0, last_measurement |-> 0 ]

\* esp_wifi_start has returned (line 231): no task exists yet
BootInit ==
  /\ pc = "nocreated"
  /\ sock = "none"
  /\ inbox = 0
  /\ no_msg_cnt = 0
  /\ is_stream_stop = FALSE
  /\ sourceAddr = NoAddr
  /\ len = 0
  /\ buf = [i \in BufIndex |-> "uninit"]
  /\ streaming = TRUE
  /\ rx = NoDatagram
  /\ tx = << >>
  /\ idleSince = 0
  /\ stopsSinceReq = 0
  /\ stopsSinceInit = 0
  /\ pid = pid_data
  /\ lock = "free"
  /\ wpc = "idle"
  /\ cmd = << 0, 0 >>
  /\ rpc = "nocreated"
  /\ snap = << 0, 0 >>
  /\ before = << 0, 0 >>
  /\ mainpc = "call_wait"
  /\ wifi_event_group = {}
  /\ bothSet = FALSE

\* lines 49-52: SYSTEM_EVENT_STA_START
StaStart ==
  /\ UNCHANGED << loopVars, ctlVars, bootVars >>

\* lines 53-56: SYSTEM_EVENT_STA_CONNECTED
StaConnected ==
  /\ UNCHANGED << loopVars, ctlVars, bootVars >>

\* lines 57-60: SYSTEM_EVENT_STA_GOT_IP
StaGotIp ==
  /\ wifi_event_group' = wifi_event_group \cup {IPV4_GOTIP_BIT}
  /\ mainpc' = Woken(mainpc, wifi_event_group')
  /\ bothSet' = (bothSet \/ WaitedBits \subseteq wifi_event_group')
  /\ UNCHANGED << loopVars, ctlVars >>

\* lines 61-66: SYSTEM_EVENT_STA_DISCONNECTED
StaDisconnected ==
  /\ wifi_event_group' = wifi_event_group \ {IPV4_GOTIP_BIT, IPV6_GOTIP_BIT}
  /\ UNCHANGED << loopVars, ctlVars, mainpc, bothSet >>

\* lines 67-72: SYSTEM_EVENT_AP_STA_GOT_IP6
ApStaGotIp6 ==
  /\ wifi_event_group' = wifi_event_group \cup {IPV6_GOTIP_BIT}
  /\ mainpc' = Woken(mainpc, wifi_event_group')
  /\ bothSet' = (bothSet \/ WaitedBits \subseteq wifi_event_group')
  /\ UNCHANGED << loopVars, ctlVars >>

event_handler ==
  \/ StaStart
  \/ StaConnected
  \/ StaGotIp
  \/ StaDisconnected
  \/ ApStaGotIp6

\* line 240: the call returns at once if the bits are set, else blocks
WaitBits ==
  /\ mainpc = "call_wait"
  /\ mainpc' = IF xEventGroupWaitBits(wifi_event_group)
                 THEN "pid_init" ELSE "wait"
  /\ UNCHANGED << loopVars, ctlVars, wifi_event_group, bothSet >>

\* variant: the tasks are created without PID_Init
PidInitSkipped ==
  /\ mainpc = "pid_init"
  /\ mainpc' = "create_server"
  /\ UNCHANGED << loopVars, ctlVars, wifi_event_group, bothSet >>

\* lines 247-256: ADC setup, then PID_Init(p_pid_data)
PidInit ==
  /\ mainpc = "pid_init"
  /\ mainpc' = "create_server"
  /\ pid' = init
  /\ UNCHANGED << loopVars, lock, wpc, cmd, rpc, snap, before,
                  wifi_event_group, bothSet >>

\* line 263: xTaskCreate(udp_server_task, ..., 5, NULL)
CreateServer ==
  /\ mainpc = "create_server"
  /\ mainpc' = "create_stream"
  /\ pc' = "socket"
  /\ UNCHANGED << sock, inbox, no_msg_cnt, is_stream_stop, sourceAddr, len,
                  buf, streaming, rx, tx, idleSince, stopsSinceReq,
                  stopsSinceInit >>
  /\ UNCHANGED << ctlVars, wifi_event_group, bothSet >>

\* line 264: xTaskCreate(_stream_task, ..., 4, NULL)
CreateStream ==
  /\ mainpc = "create_stream"
  /\ mainpc' = "done"
  /\ rpc' = "idle"
  /\ UNCHANGED << loopVars, pid, lock, wpc, cmd, snap, before,
                  wifi_event_group, bothSet >>

app_main ==
  \/ WaitBits
  \/ PidInit
  \/ CreateServer
  \/ CreateStream

\* the tasks, followed while udp_server_task has counted fewer than
\* MaxBootTicks idle polls in a row
Tasks ==
  /\ no_msg_cnt < MaxBootTicks
  /\ Next

BootNext ==
  \/ app_main
  \/ event_handler
  \/ Tasks

BootSpec == BootInit /\ [][BootNext]_vars

\* udp_server_task has the highest priority (5): it runs whenever it is ready
FairSpec == Spec /\ WF_vars(ServerNext)

(***************************************************************************)
(* Properties                                                              *)
(***************************************************************************)
\* the task is inside the polling loop (lines 130-194)
InInnerLoop == pc \in {"check", "poll", "recv", "process", "send", "reset"}

\* a datagram is being handled (lines 160-185)
Handling == pc \in {"process", "send", "reset"}

\* no datagram has been read since the task started
NoRequestYet == rx = NoDatagram

\* C1, as stated: with no request processed, the ACTIVE -> SUSPENDED
\* transition (stream_stop called, is_stream_stop set) has not happened
\* during the first 749 idle ticks and has happened once the 750th idle tick
\* is over.
C1_StopOn750thTick ==
  (NoRequestYet /\ InInnerLoop) =>
     /\ (idleSince < no_msg_cnt_warn => ~is_stream_stop)
     /\ (idleSince >= no_msg_cnt_warn => is_stream_stop /\ ~streaming)

\* C1, amended: with no request processed, the transition has not happened
\* during any of the first 750 idle ticks; it is made by the watchdog check
\* at the top of the loop pass that follows the 750th idle tick, before the
\* socket is polled in that pass.
C1_StopAfter750thTick ==
  (NoRequestYet /\ InInnerLoop) =>
     /\ (idleSince < no_msg_cnt_warn => ~is_stream_stop)
     /\ (idleSince = no_msg_cnt_warn /\ pc = "check" => ~is_stream_stop)
     /\ (idleSince >= no_msg_cnt_warn
           /\ ~(idleSince = no_msg_cnt_warn /\ pc = "check")
         => is_stream_stop /\ ~streaming)

C1_Witness ==
  /\ NoRequestYet
  /\ pc = "poll"
  /\ idleSince = no_msg_cnt_warn
  /\ is_stream_stop
  /\ ~streaming
  /\ stopsSinceReq = 1

\* C2: the request processed while SUSPENDED leaves the watchdog ACTIVE, the
\* idle count 0 and the Telemetry Pusher enabled again.
C2_Recovery ==
  [][(pc = "reset" /\ is_stream_stop /\ pc' = "check")
       => (~is_stream_stop' /\ no_msg_cnt' = 0 /\ streaming')]_vars

\* C3: a datagram whose length is not the frame size is not dispatched, is
\* not answered and does not count as a processed request.
C3_MalformedDiscarded ==
  (rx /= NoDatagram /\ rx.len /= REQUEST_RESPONSE_BUF_SIZE) =>
     /\ ~Handling
     /\ tx = << >>

\* C4: in every execution in which datagrams stop arriving from some point
\* on, the Telemetry Pusher ends up disabled and the watchdog stays SUSPENDED.
C4_SilenceSuspendsTelemetry ==
  (<>[][~Arrive]_vars) => <>[](is_stream_stop /\ ~streaming)

\* C5: every datagram read is answered by exactly one sendto of the frame
\* size, on the socket it was read from, to that datagram's source address,
\* before the next datagram is read; nothing is sent before a datagram was
\* read.
C5_OneRequestOneReply ==
  /\ Len(tx) <= 1
  /\ NoRequestYet => tx = << >>
  /\ tx /= << >> =>
       tx[1] = [dst |-> rx.src, len |-> REQUEST_RESPONSE_BUF_SIZE]
  /\ pc \in {"process", "send"} => tx = << >>
  /\ (~NoRequestYet /\ pc \notin {"process", "send"}) => Len(tx) = 1
  /\ Handling => sock = "bound"

C5_Witness ==
  /\ pc = "reset"
  /\ rx.src = NumClients
  /\ sourceAddr = NumClients
  /\ tx = << [dst |-> NumClients, len |-> REQUEST_RESPONSE_BUF_SIZE] >>
  /\ inbox > 0

\* C6: the Request Loop never terminates and never polls an endpoint that
\* failed to bind.
C6_LoopServesBoundEndpoint ==
  /\ pc /= "deleted"
  /\ InInnerLoop => sock = "bound"

\* C7: in every reachable state the integral accumulator lies within the
\* integral limits and the last output within the output limits.
C7_WithinLimits ==
  /\ pid.integral_min <= pid.integral_accumulator
  /\ pid.integral_accumulator <= pid.integral_max
  /\ pid.output_min <= pid.last_output
  /\ pid.last_output <= pid.output_max

\* process_request holds the lock for a write
Writing == wpc \in {"write_min", "write_max", "release"}

\* _stream_task holds the lock for a read
Reading == rpc \in {"read_min", "read_max", "release"}

C9_StopOnlyAfterInactivity ==
  InInnerLoop =>
     /\ (stopsSinceInit > 0 \/ is_stream_stop) => idleSince >= no_msg_cnt_warn
     /\ no_msg_cnt <= idleSince
     /\ Handling => no_msg_cnt <= no_msg_cnt_warn

C9_Witness ==
  /\ ~NoRequestYet
  /\ pc = "poll"
  /\ stopsSinceInit = 1
  /\ is_stream_stop
  /\ idleSince = no_msg_cnt_warn

\* C10, as stated: between two consecutive processed requests stream_stop is
\* called at most once, whatever faults and socket re-creations occur.
C10_AtMostOneStop == stopsSinceReq <= 1

\* C10, amended: between two consecutive processed requests stream_stop is
\* called at most once per watchdog, that is, as long as no receive fault
\* makes the loop re-create the socket and, with it, no_msg_cnt and
\* is_stream_stop; after every re-creation it can be called once more.
C10_AtMostOneStopPerWatchdog == stopsSinceInit <= 1

C10_Witness ==
  /\ pc = "check"
  /\ stopsSinceInit = 1
  /\ idleSince = no_msg_cnt_warn + 1
  /\ is_stream_stop

\* C11: the idle count stays within 0..no_msg_cnt_warn and equals
\* no_msg_cnt_warn whenever is_stream_stop is set; an idle tick adds exactly 1
\* to it while ACTIVE and leaves it alone while SUSPENDED.
C11_IdleCounterBounds ==
  /\ [](/\ 0 <= no_msg_cnt
        /\ no_msg_cnt <= no_msg_cnt_warn
        /\ is_stream_stop => no_msg_cnt = no_msg_cnt_warn)
  /\ [][(pc = "poll" /\ pc' = "check") =>
          no_msg_cnt' = IF is_stream_stop THEN no_msg_cnt ELSE no_msg_cnt + 1]_vars

C11_Witness ==
  /\ pc = "check"
  /\ is_stream_stop
  /\ no_msg_cnt = no_msg_cnt_warn
  /\ idleSince = no_msg_cnt_warn + 1

\* the Telemetry Pusher (priority 4) gets the processor that runs
\* udp_server_task (priority 5) only while that task is blocked: in the
\* vTaskDelay of an idle tick (line 192)
LoopYields == PollIdle

\* C12: while telemetry is enabled the Telemetry Pusher is scheduled again
\* and again, whatever the rate of inbound datagrams: the Request Loop keeps
\* yielding the processor for as long as it runs and telemetry is on.
C12_PusherNotStarved ==
  \/ []<><<LoopYields>>_vars
  \/ <>[](~streaming)
  \/ <>[](pc = "deleted")

\* C13: whenever the loop has created a socket, the watchdog starts again
\* with idle count 0 and is_stream_stop false, no request being processed and
\* telemetry left as it was; so after a receive fault while SUSPENDED the
\* flag is false with telemetry still stopped, and stream_stop is called
\* again by the check that follows 750 further idle ticks.
C13_WatchdogRestartsWithSocket ==
  /\ [][(pc = "bind" /\ pc' = "check") =>
          /\ no_msg_cnt' = 0
          /\ ~is_stream_stop'
          /\ streaming' = streaming
          /\ rx' = rx /\ tx' = tx]_vars
  /\ [](InInnerLoop =>
          /\ (idleSince < no_msg_cnt_warn =>
                 ~is_stream_stop /\ stopsSinceInit = 0)
          /\ (idleSince >= no_msg_cnt_warn
                 /\ ~(idleSince = no_msg_cnt_warn /\ pc = "check")
               => is_stream_stop /\ stopsSinceInit = 1 /\ ~streaming))

C13_Witness ==
  /\ pc = "poll"
  /\ is_stream_stop
  /\ ~streaming
  /\ idleSince = no_msg_cnt_warn
  /\ stopsSinceInit = 1
  /\ stopsSinceReq = 2

\* buf with every byte zero
Zeroed == [i \in BufIndex |-> "zero"]

\* C16: the request/response buffer is zeroed after every reply and not
\* written until the next receive: once a first datagram has been received
\* the buffer is all-zero whenever no datagram is being handled (so at every
\* later receive, also after the socket was re-created), a later receive
\* leaves the bytes beyond the datagram zero, and at no time does a byte of
\* the buffer hold a byte of an earlier request or response; bytes never
\* written exist only until the first zeroing.
C16_BufferHygiene ==
  /\ [](\A i \in BufIndex : buf[i] /= "stale")
  /\ []((~NoRequestYet /\ ~Handling) => buf = Zeroed)
  /\ []((\E i \in BufIndex : buf[i] = "uninit")
          => /\ NoRequestYet \/ Handling
             /\ \A i \in BufIndex : buf[i] /= "zero")
  /\ [][(pc = "recv" /\ pc' = "process" /\ ~NoRequestYet) =>
          /\ buf = Zeroed
          /\ \A i \in BufIndex :
               buf'[i] = IF i <= len' THEN "request" ELSE "zero"]_vars
  /\ [][(pc = "reset" /\ pc' = "check") => buf' = Zeroed]_vars

\* C16's case: the reply to a short datagram that was not the first is about
\* to be sent, its last byte still zero from the clearing after the previous
\* reply.
C16_Witness ==
  /\ pc = "send"
  /\ rx.len = REQUEST_RESPONSE_BUF_SIZE - 1
  /\ buf[REQUEST_RESPONSE_BUF_SIZE] = "zero"
  /\ buf[1] = "response"
  /\ buf[2] = "request"

\* a task created by app_main exists
ServerCreated == pc /= "nocreated"

StreamCreated == rpc /= "nocreated"

\* C14: PID_Init has run before either task exists, so whenever a task
\* exists (and so whenever a request is dispatched or telemetry could be
\* pushed) the ControllerState is an initialised one, and the initialisation
\* itself happens while no task exists.
C14_InitBeforeTasks ==
  /\ []((ServerCreated \/ StreamCreated) =>
          /\ pid = init
          /\ mainpc \in {"create_stream", "done"})
  /\ [](Handling => pid /= pid_data)
  /\ [][pid' /= pid => ~ServerCreated /\ ~StreamCreated /\ pid' = init]_vars

\* C14's case: both tasks exist and a request is being dispatched
C14_Witness ==
  /\ pc = "process"
  /\ rpc = "idle"
  /\ mainpc = "done"
  /\ pid = init

\* C15: the tasks are created only after a state with both got-IP bits set;
\* while the bits have never been set together app_main has not got past its
\* wait, no task exists and no request is served; a disconnect clears both
\* bits at once and changes nothing of the tasks, which, once created, stay.
C15_StartGatedOnLink ==
  /\ [](~bothSet =>
          /\ mainpc \in {"call_wait", "wait"}
          /\ ~ServerCreated /\ ~StreamCreated
          /\ ~InInnerLoop)
  /\ [][(wifi_event_group' /= wifi_event_group
          /\ wifi_event_group' \subseteq wifi_event_group) =>
          /\ wifi_event_group' = {}
          /\ UNCHANGED << loopVars, ctlVars, mainpc >>]_vars
  /\ [][(ServerCreated => ServerCreated') /\ (StreamCreated => StreamCreated')]_vars

\* C15's case: a request is being handled, and the stream task exists, after
\* a disconnect has cleared the bits
C15_Witness ==
  /\ Handling
  /\ rpc = "idle"
  /\ bothSet
  /\ wifi_event_group = {}

====
